---- MODULE Spec2Model ----
(***************************************************************************)
(* A model of modules/ringo/jsgi/connector.js: the asynchronous response   *)
(* handle (AsyncResponse, WriteListenerImpl) used from several threads,    *)
(* and the synchronous response committer (commitResponse, writeResponse,  *)
(* writeHeaders, writeBody).                                               *)
(*                                                                         *)
(* Spec       : one AsyncResponse handle, NumThreads application threads   *)
(*              calling write/flush/close, and the servlet container's     *)
(*              thread delivering onWritePossible / onTimeout / onError.   *)
(*              Every                                                      *)
(*              statement of write, flush and onWritePossible that reads   *)
(*              or writes shared state is one step.                        *)
(* SpecCommit : commitResponse applied to every input of a bounded set.    *)
(* SpecHandle : handleRequest applied to every input of a bounded set.     *)
(* SpecResolve: resolve applied to every list of a bounded set.            *)
(***************************************************************************)
EXTENDS Naturals, Sequences, FiniteSets

\* ------------------------------------------------------------------ bounds
NumThreads == 2
MaxChunks == 2
MaxCloses == 1
MaxFlushes == 1

Threads == 1..NumThreads
Container == 0
Procs == {Container} \cup Threads
Listeners == 1..NumThreads

VARIABLES
    \* ---- AsyncResponse closure state (connector.js 148-203)
    writeListener,   \* the closure variable: 0 is null, else a listener id
    nListeners,      \* WriteListenerImpl objects constructed so far
    queues,          \* listener id -> its ConcurrentLinkedQueue
    autoFlush,       \* the constructor argument autoFlush === true
    hasTimeout,      \* timeout != null && isFinite(timeout)
    \* ---- the transport (servlet container)
    registered,      \* the listener given to out.setWriteListener, 0 if none
    chReady,         \* out.isReady()
    channel,         \* the chunks handed to out.write, in call order
    flushes,         \* number of out.flush calls
    cbPending,       \* the container owes an onWritePossible call
    completed,       \* asyncContext.complete() has been called
    completeCalls,   \* number of asyncContext.complete() calls
    closeCalls,      \* number of close() calls
    flushCalls,      \* number of flush() calls
    timeoutFired,    \* AsyncListener.onTimeout has run
    errorFired,      \* WriteListener.onError has run
    \* ---- one record per thread of control
    pc,              \* the statement each process is at
    data,            \* the chunk of the current (or last) write call
    this,            \* the listener onWritePossible runs on
    polled,          \* the local variable data of onWritePossible
    \* ---- history, read by the properties only
    nextChunk,       \* chunks are numbered in the order of queue.add
    chanOps,         \* out.write/out.flush calls made by the current call
    startedCompleted,\* the current write call began after completion
    notReadyCall,    \* the channel has been not ready since the call began
    \* ---- commitResponse (connector.js 83-137)
    cInput,          \* the arguments and transport flags of one commit call
    cOps,            \* the transport operations the call performed
    cError,          \* the error it raised, "none" if none
    cDone,           \* the call has run
    \* ---- handleRequest and resolve (connector.js 24-49, 213-232)
    hInput,          \* the arguments of one handleRequest or resolve call
    hOut,            \* what the call did and returned
    hDone            \* the call has run

asyncVars == <<writeListener, nListeners, queues, autoFlush, hasTimeout,
               registered, chReady, channel, flushes, cbPending, completed,
               completeCalls, closeCalls, flushCalls, timeoutFired,
               errorFired, pc, data, this, polled, nextChunk, chanOps,
               startedCompleted, notReadyCall>>
commitVars == <<cInput, cOps, cError, cDone>>
handleVars == <<hInput, hOut, hDone>>
vars == <<asyncVars, commitVars, handleVars>>

Range(s) == {s[i] : i \in 1..Len(s)}

\* ---------------------------------------------------------------- helpers
InQueue(c) == \E l \in Listeners : c \in Range(queues[l])
IsReady == chReady

\* A call returns: its locals die with it.
Return(p) ==
    /\ pc' = [pc EXCEPT ![p] = "idle"]
    /\ data' = [data EXCEPT ![p] = 0]
    /\ this' = [this EXCEPT ![p] = 0]
    /\ chanOps' = [chanOps EXCEPT ![p] = 0]
    /\ startedCompleted' = [startedCompleted EXCEPT ![p] = FALSE]
    /\ notReadyCall' = [notReadyCall EXCEPT ![p] = FALSE]

\* write calls begun so far
Started ==
    (nextChunk - 1)
      + Cardinality({t \in Threads : pc[t] \in {"w_new", "w_addFirst", "w_add"}})

\* asyncContext.complete() as the transport sees it: the exchange is
\* completed; every call is counted.
Complete ==
    /\ completed' = TRUE
    /\ completeCalls' = completeCalls + 1

\* out.write(data) as the transport sees it: the chunk is appended to what
\* the channel received; the channel may stop being ready (its buffer fills).
ChannelWrite(c) ==
    /\ channel' = Append(channel, c)
    /\ chReady' \in {chReady, FALSE}

\* ------------------------------------------------- AsyncResponse.write
\* data = ...; if (writeListener === null)
WriteBegin(t) ==
    /\ pc[t] = "idle"
    /\ Started < MaxChunks
    /\ pc' = [pc EXCEPT ![t] = IF writeListener = 0 THEN "w_new" ELSE "w_add"]
    /\ chanOps' = [chanOps EXCEPT ![t] = 0]
    /\ startedCompleted' = [startedCompleted EXCEPT ![t] = completed]
    /\ notReadyCall' = [notReadyCall EXCEPT ![t] = ~chReady]
    /\ UNCHANGED <<writeListener, nListeners, queues, autoFlush, hasTimeout, flushCalls,
                   registered, chReady, channel, flushes, cbPending,
                   completed, completeCalls, closeCalls, timeoutFired,
                   errorFired, data, this, polled, nextChunk>>

\* writeListener = new WriteListenerImpl(asyncContext, autoFlush === true)
W_New(t) ==
    /\ pc[t] = "w_new"
    /\ nListeners' = nListeners + 1
    /\ writeListener' = nListeners + 1
    /\ pc' = [pc EXCEPT ![t] = "w_addFirst"]
    /\ UNCHANGED <<queues, autoFlush, hasTimeout, flushCalls, registered, chReady, channel,
                   flushes, cbPending, completed, completeCalls, closeCalls,
                   timeoutFired, errorFired, data, this, polled, nextChunk, chanOps, startedCompleted, notReadyCall>>

\* writeListener.queue.add(data), in either branch: the closure variable is
\* read again, then the chunk is appended to that listener's queue.
QueueAdd(t) ==
    /\ data' = [data EXCEPT ![t] = nextChunk]
    /\ queues' = [queues EXCEPT ![writeListener] = Append(@, nextChunk)]
    /\ nextChunk' = nextChunk + 1

W_AddFirst(t) ==
    /\ pc[t] = "w_addFirst"
    /\ QueueAdd(t)
    /\ pc' = [pc EXCEPT ![t] = "w_setListener"]
    /\ UNCHANGED <<writeListener, nListeners, autoFlush, hasTimeout, flushCalls,
                   registered, chReady, channel, flushes, cbPending,
                   completed, completeCalls, closeCalls, timeoutFired,
                   errorFired, this, polled, chanOps, startedCompleted,
                   notReadyCall>>

\* out.setWriteListener(writeListener); return this.  The first registration
\* is kept and the container owes a callback as soon as the channel is
\* ready; a second registration raises IllegalStateException out of write.
W_SetListener(t) ==
    /\ pc[t] = "w_setListener"
    /\ IF registered = 0
          THEN /\ registered' = writeListener
               /\ cbPending' = chReady
          ELSE UNCHANGED <<registered, cbPending>>
    /\ Return(t)
    /\ UNCHANGED <<writeListener, nListeners, queues, autoFlush, hasTimeout, flushCalls,
                   chReady, channel, flushes, completed, completeCalls,
                   closeCalls, timeoutFired, errorFired, polled, nextChunk>>

W_Add(t) ==
    /\ pc[t] = "w_add"
    /\ QueueAdd(t)
    /\ pc' = [pc EXCEPT ![t] = "w_call"]
    /\ UNCHANGED <<writeListener, nListeners, autoFlush, hasTimeout, flushCalls,
                   registered, chReady, channel, flushes, cbPending,
                   completed, completeCalls, closeCalls, timeoutFired,
                   errorFired, this, polled, chanOps, startedCompleted,
                   notReadyCall>>

\* writeListener.onWritePossible(): the closure variable is read once more.
W_Call(t) ==
    /\ pc[t] = "w_call"
    /\ this' = [this EXCEPT ![t] = writeListener]
    /\ pc' = [pc EXCEPT ![t] = "d_empty"]
    /\ UNCHANGED <<writeListener, nListeners, queues, autoFlush, hasTimeout, flushCalls,
                   registered, chReady, channel, flushes, cbPending,
                   completed, completeCalls, closeCalls, timeoutFired,
                   errorFired, data, polled, nextChunk, chanOps,
                   startedCompleted, notReadyCall>>

\* ------------------------------ WriteListenerImpl.prototype.onWritePossible
\* while (!this.queue.isEmpty() ...
D_Empty(p) ==
    /\ pc[p] = "d_empty"
    /\ pc' = [pc EXCEPT ![p] = IF queues[this[p]] = <<>> THEN "d_flushChk"
                                                         ELSE "d_ready"]
    /\ UNCHANGED <<writeListener, nListeners, queues, autoFlush, hasTimeout, flushCalls,
                   registered, chReady, channel, flushes, cbPending,
                   completed, completeCalls, closeCalls, timeoutFired,
                   errorFired, data, this, polled, nextChunk, chanOps,
                   startedCompleted, notReadyCall>>

\* ... && outStream.isReady())
D_ReadyNoCheck(p) ==
    /\ pc[p] = "d_ready"
    /\ pc' = [pc EXCEPT ![p] = "d_poll"]
    /\ UNCHANGED <<writeListener, nListeners, queues, autoFlush, hasTimeout, flushCalls,
                   registered, chReady, channel, flushes, cbPending,
                   completed, completeCalls, closeCalls, timeoutFired,
                   errorFired, data, this, polled, nextChunk, chanOps,
                   startedCompleted, notReadyCall>>

D_Ready(p) ==
    /\ pc[p] = "d_ready"
    /\ pc' = [pc EXCEPT ![p] = IF IsReady THEN "d_poll" ELSE "d_flushChk"]
    /\ UNCHANGED <<writeListener, nListeners, queues, autoFlush, hasTimeout, flushCalls,
                   registered, chReady, channel, flushes, cbPending,
                   completed, completeCalls, closeCalls, timeoutFired,
                   errorFired, data, this, polled, nextChunk, chanOps,
                   startedCompleted, notReadyCall>>

\* var data = this.queue.poll(); if (!data) break;
D_Poll(p) ==
    /\ pc[p] = "d_poll"
    /\ IF queues[this[p]] = <<>>
          THEN /\ pc' = [pc EXCEPT ![p] = "d_flushChk"]
               /\ UNCHANGED <<queues, polled>>
          ELSE /\ polled' = [polled EXCEPT ![p] = Head(queues[this[p]])]
               /\ queues' = [queues EXCEPT ![this[p]] = Tail(@)]
               /\ pc' = [pc EXCEPT ![p] = "d_write"]
    /\ UNCHANGED <<writeListener, nListeners, autoFlush, hasTimeout, flushCalls,
                   registered, chReady, channel, flushes, cbPending,
                   completed, completeCalls, closeCalls, timeoutFired,
                   errorFired, data, this, nextChunk, chanOps,
                   startedCompleted, notReadyCall>>

\* outStream.write(data);
D_Write(p) ==
    /\ pc[p] = "d_write"
    /\ ChannelWrite(polled[p])
    /\ polled' = [polled EXCEPT ![p] = 0]
    /\ chanOps' = [chanOps EXCEPT ![p] = @ + 1]
    /\ pc' = [pc EXCEPT ![p] = "d_empty"]
    /\ UNCHANGED <<writeListener, nListeners, queues, autoFlush, hasTimeout, flushCalls,
                   registered, flushes, cbPending, completed, completeCalls,
                   closeCalls, timeoutFired, errorFired, data, this, nextChunk, startedCompleted, notReadyCall>>

\* the end of onWritePossible flushing whatever autoFlush and isReady() say
D_FlushChkAlways(p) ==
    /\ pc[p] = "d_flushChk"
    /\ pc' = [pc EXCEPT ![p] = "d_flush"]
    /\ UNCHANGED <<writeListener, nListeners, queues, autoFlush, hasTimeout,
                   flushCalls, registered, chReady, channel, flushes,
                   cbPending, completed, completeCalls, closeCalls,
                   timeoutFired, errorFired, data, this, polled, nextChunk,
                   chanOps, startedCompleted, notReadyCall>>

\* if (this.autoFlush === true && outStream.isReady())
D_FlushChk(p) ==
    /\ pc[p] = "d_flushChk"
    /\ IF autoFlush /\ IsReady
          THEN /\ pc' = [pc EXCEPT ![p] = "d_flush"]
               /\ UNCHANGED <<data, this, chanOps, startedCompleted,
                              notReadyCall>>
          ELSE Return(p)
    /\ UNCHANGED <<writeListener, nListeners, queues, autoFlush, hasTimeout, flushCalls,
                   registered, chReady, channel, flushes, cbPending,
                   completed, completeCalls, closeCalls, timeoutFired,
                   errorFired, polled, nextChunk>>

\* outStream.flush();
D_Flush(p) ==
    /\ pc[p] = "d_flush"
    /\ flushes' = flushes + 1
    /\ Return(p)
    /\ UNCHANGED <<writeListener, nListeners, queues, autoFlush, hasTimeout, flushCalls,
                   registered, chReady, channel, cbPending, completed,
                   completeCalls, closeCalls, timeoutFired, errorFired,
                   polled, nextChunk>>

\* --------------------------------------------------- AsyncResponse.flush
\* if (out.isReady()), the test left out
F_CheckAlways(t) ==
    /\ pc[t] = "idle"
    /\ flushCalls < MaxFlushes
    /\ flushCalls' = flushCalls + 1
    /\ pc' = [pc EXCEPT ![t] = "f_flush"]
    /\ UNCHANGED <<writeListener, nListeners, queues, autoFlush, hasTimeout,
                   registered, chReady, channel, flushes, cbPending,
                   completed, completeCalls, closeCalls, timeoutFired,
                   errorFired, data, this, polled, nextChunk, chanOps,
                   startedCompleted, notReadyCall>>

\* if (out.isReady()): a channel that is not ready ends the call
F_Check(t) ==
    /\ pc[t] = "idle"
    /\ flushCalls < MaxFlushes
    /\ flushCalls' = flushCalls + 1
    /\ pc' = IF IsReady THEN [pc EXCEPT ![t] = "f_flush"] ELSE pc
    /\ UNCHANGED <<writeListener, nListeners, queues, autoFlush, hasTimeout,
                   registered, chReady, channel, flushes, cbPending,
                   completed, completeCalls, closeCalls, timeoutFired,
                   errorFired, data, this, polled, nextChunk, chanOps,
                   startedCompleted, notReadyCall>>

\* out.flush();
F_Flush(t) ==
    /\ pc[t] = "f_flush"
    /\ flushes' = flushes + 1
    /\ Return(t)
    /\ UNCHANGED <<writeListener, nListeners, queues, autoFlush, hasTimeout,
                   flushCalls, registered, chReady, channel, cbPending,
                   completed, completeCalls, closeCalls, timeoutFired,
                   errorFired, polled, nextChunk>>

\* --------------------------------------------------- AsyncResponse.close
Close(t) ==
    /\ pc[t] = "idle"
    /\ closeCalls < MaxCloses
    /\ closeCalls' = closeCalls + 1
    /\ Complete
    /\ UNCHANGED <<writeListener, nListeners, queues, autoFlush, hasTimeout, flushCalls,
                   registered, chReady, channel, flushes, cbPending,
                   timeoutFired, errorFired, pc, data, this, polled, nextChunk, chanOps, startedCompleted, notReadyCall>>

\* ------------------------------------------------------------- transport
\* AsyncListener.onTimeout: the configured timeout elapses with the exchange
\* still open; the listener logs and calls asyncContext.complete().
OnTimeoutLogOnly ==
    /\ hasTimeout /\ ~completed /\ ~timeoutFired
    /\ timeoutFired' = TRUE
    /\ UNCHANGED <<completed, completeCalls>>
    /\ UNCHANGED <<writeListener, nListeners, queues, autoFlush, hasTimeout, flushCalls,
                   registered, chReady, channel, flushes, cbPending,
                   closeCalls, errorFired, pc, data, this, polled, nextChunk, chanOps, startedCompleted, notReadyCall>>

OnTimeout ==
    /\ hasTimeout /\ ~completed /\ ~timeoutFired
    /\ timeoutFired' = TRUE
    /\ Complete
    /\ UNCHANGED <<writeListener, nListeners, queues, autoFlush, hasTimeout, flushCalls,
                   registered, chReady, channel, flushes, cbPending,
                   closeCalls, errorFired, pc, data, this, polled, nextChunk, chanOps, startedCompleted, notReadyCall>>

\* WriteListenerImpl.prototype.onError: the container reports a channel
\* error to the registered listener, which logs and completes the exchange.
OnErrorLogOnly ==
    /\ registered # 0 /\ ~completed /\ ~errorFired
    /\ pc[Container] = "idle"
    /\ errorFired' = TRUE
    /\ UNCHANGED <<writeListener, nListeners, queues, autoFlush, hasTimeout,
                   flushCalls, registered, chReady, channel, flushes,
                   cbPending, completed, completeCalls, closeCalls,
                   timeoutFired, pc, data, this, polled, nextChunk, chanOps,
                   startedCompleted, notReadyCall>>

OnError ==
    /\ registered # 0 /\ ~completed /\ ~errorFired
    /\ pc[Container] = "idle"
    /\ errorFired' = TRUE
    /\ Complete
    /\ UNCHANGED <<writeListener, nListeners, queues, autoFlush, hasTimeout, flushCalls,
                   registered, chReady, channel, flushes, cbPending,
                   closeCalls, timeoutFired, pc, data, this, polled, nextChunk, chanOps, startedCompleted, notReadyCall>>

\* The channel turns from not ready to ready; the container then owes the
\* registered listener an onWritePossible call.
ChannelReady ==
    /\ ~chReady
    /\ chReady' = TRUE
    /\ cbPending' = (cbPending \/ registered # 0)
    /\ notReadyCall' = [p \in Procs |-> FALSE]
    /\ UNCHANGED <<writeListener, nListeners, queues, autoFlush, hasTimeout, flushCalls,
                   registered, channel, flushes, completed, completeCalls,
                   closeCalls, timeoutFired, errorFired, pc, data, this,
                   polled, nextChunk, chanOps, startedCompleted>>

\* The container calls onWritePossible on the registered listener, one call
\* at a time, while the exchange is open.
CallbackStart ==
    /\ cbPending /\ registered # 0 /\ ~completed
    /\ pc[Container] = "idle"
    /\ cbPending' = FALSE
    /\ this' = [this EXCEPT ![Container] = registered]
    /\ chanOps' = [chanOps EXCEPT ![Container] = 0]
    /\ pc' = [pc EXCEPT ![Container] = "d_empty"]
    /\ UNCHANGED <<writeListener, nListeners, queues, autoFlush, hasTimeout, flushCalls,
                   registered, chReady, channel, flushes, completed,
                   completeCalls, closeCalls, timeoutFired, errorFired, data,
                   polled, nextChunk, startedCompleted, notReadyCall>>

\* ======================================================== commitResponse
\* JavaScript values, as far as the committer looks at them.
Undefined == [t |-> "undefined"]
Null == [t |-> "null"]
Num(n) == [t |-> "number", v |-> n]
Str(chars) == [t |-> "string", v |-> chars]
Arr(elems) == [t |-> "array", v |-> elems]
\* a headers object: its enumerable properties in enumeration order
Obj(entries) == [t |-> "object", v |-> entries]
\* a body with forEach: the parts it passes to the writer, whether it has a
\* close function, and the parts that function passes to the writer
Body(parts, hasClose, closeParts) ==
    [t |-> "body", v |-> parts, close |-> hasClose, closeParts |-> closeParts]
BinPart(id) == [bin |-> TRUE, v |-> id]
StrPart(id) == [bin |-> FALSE, v |-> id]

\* !v
Falsy(v) ==
    \/ v.t \in {"undefined", "null"}
    \/ (v.t = "number" /\ v.v = 0)
    \/ (v.t = "string" /\ v.v = <<>>)

\* typeof body.forEach == "function"
HasForEach(v) == v.t = "body"

NL == "\n"
SkipHeader == "X-JSGI-Skip-Response"

\* String.prototype.split("\n") on a sequence of characters
RECURSIVE SplitNL(_)
SplitNL(chars) ==
    IF \A i \in 1..Len(chars) : chars[i] # NL
       THEN <<chars>>
       ELSE LET k == CHOOSE i \in 1..Len(chars) :
                        /\ chars[i] = NL
                        /\ \A j \in 1..(i - 1) : chars[j] # NL
            IN  <<SubSeq(chars, 1, k - 1)>>
                  \o SplitNL(SubSeq(chars, k + 1, Len(chars)))

\* Headers(headers).contains(name): the headers object has the property
HeadersContains(headers, name) ==
    \E i \in 1..Len(headers.v) : headers.v[i].name = name

\* getMimeParameter(headers.get("Content-Type"), "charset"): the charset the
\* Content-Type value names, undefined when there is none
Charset(headers) ==
    IF \E i \in 1..Len(headers.v) :
           /\ headers.v[i].name = "Content-Type"
           /\ headers.v[i].value.t = "string"
           /\ \E j \in 1..Len(headers.v[i].value.v) :
                  headers.v[i].value.v[j] = "charset=latin1"
       THEN "latin1"
       ELSE "default"

\* servletResponse.addHeader(key, value) for each value of one property
AddHeaders(name, values) ==
    [i \in 1..Len(values) |-> [op |-> "addHeader", name |-> name,
                                value |-> values[i]]]

\* one pass of the for-in loop of writeHeaders, a string value not split
HeaderLinesUnsplit(entry) ==
    IF entry.value.t = "string"
       THEN AddHeaders(entry.name, <<entry.value.v>>)
       ELSE IF entry.value.t # "array"
               THEN <<>>
               ELSE AddHeaders(entry.name, [i \in 1..Len(entry.value.v) |->
                                               entry.value.v[i].v])

\* one pass of the for-in loop of writeHeaders
HeaderLines(entry) ==
    IF entry.value.t = "string"
       THEN AddHeaders(entry.name, SplitNL(entry.value.v))
       ELSE IF entry.value.t # "array"
               THEN <<>>
               ELSE AddHeaders(entry.name, [i \in 1..Len(entry.value.v) |->
                                               entry.value.v[i].v])

RECURSIVE writeHeadersFrom(_, _)
writeHeadersFrom(entries, i) ==
    IF i > Len(entries)
       THEN <<>>
       ELSE HeaderLines(entries[i]) \o writeHeadersFrom(entries, i + 1)

writeHeaders(headers) == writeHeadersFrom(headers.v, 1)

\* the writer closure of writeBody: a part that is not Binary is converted
\* with part.toByteString(charset), then output.write(part)
Writer(part, charset) ==
    [op |-> "write",
     bytes |-> IF part.bin THEN [enc |-> "binary", v |-> part.v]
                           ELSE [enc |-> charset, v |-> part.v]]

WriteParts(parts, charset) ==
    [i \in 1..Len(parts) |-> Writer(parts[i], charset)]

writeBodyAsChunk(body, charset) ==
    [err |-> "none",
     ops |-> IF HasForEach(body) THEN WriteParts(body.v, charset)
                                 ELSE <<Writer(StrPart(0), charset)>>]

\* writeBody with body.close(writer) called before body.forEach(writer)
writeBodyCloseFirst(body, charset) ==
    IF ~Falsy(body) /\ HasForEach(body)
       THEN [err |-> "none",
             ops |-> (IF body.close
                         THEN <<[op |-> "close"]>>
                                \o WriteParts(body.closeParts, charset)
                         ELSE <<>>)
                       \o WriteParts(body.v, charset)]
       ELSE [err |-> "Response body doesn't implement forEach", ops |-> <<>>]

writeBody(body, charset) ==
    IF ~Falsy(body) /\ HasForEach(body)
       THEN [err |-> "none",
             ops |-> WriteParts(body.v, charset)
                       \o (IF body.close
                              THEN <<[op |-> "close"]>>
                                     \o WriteParts(body.closeParts, charset)
                              ELSE <<>>)]
       ELSE [err |-> "Response body doesn't implement forEach", ops |-> <<>>]

writeResponse(status, headers, body) ==
    LET b == writeBody(body, Charset(headers))
    IN  [err |-> b.err,
         ops |-> <<[op |-> "setStatus", status |-> status.v]>>
                   \o writeHeaders(headers) \o b.ops]

\* request.isAsyncStarted()
AsyncNeverStarted(in) == FALSE

IsAsyncStarted(in) == in.async

\* !status || !headers || !body
InvalidIgnoringBody(result) == Falsy(result.status) \/ Falsy(result.headers)

Invalid(result) ==
    Falsy(result.status) \/ Falsy(result.headers) \/ Falsy(result.body)

\* !response.isCommitted() && !Headers(headers).contains("X-JSGI-Skip-Response")
ShouldWriteIgnoringSkip(in) == ~in.committed

ShouldWrite(in) ==
    ~in.committed /\ ~HeadersContains(in.result.headers, SkipHeader)

NoEffect == [err |-> "none", ops |-> <<>>]

commitResponse(in) ==
    IF IsAsyncStarted(in)
       THEN NoEffect
       ELSE IF in.result.t \in {"null", "undefined"}
               \* var {status, headers, body} = result, result null/undefined
               THEN [err |-> "TypeError", ops |-> <<>>]
               ELSE IF in.result.t # "result"
               \* an object without status, headers and body
               THEN [err |-> "No valid JSGI response", ops |-> <<>>]
               ELSE IF Invalid(in.result)
                       THEN [err |-> "No valid JSGI response", ops |-> <<>>]
                       ELSE IF ShouldWrite(in)
                               THEN writeResponse(in.result.status,
                                                  in.result.headers,
                                                  in.result.body)
                               ELSE NoEffect

\* ---- the inputs commitResponse is applied to
MaxParts == 2

Statuses == {Undefined, Num(0), Num(200)}

MaxStrLen == 3

\* header strings: every sequence of at most MaxStrLen characters
HeaderStrings == UNION {[1..n -> {"a", "b", NL}] : n \in 0..MaxStrLen}

HeaderValues ==
    {Str(chars) : chars \in HeaderStrings}
      \cup {Arr(<<>>), Arr(<<Str(<<"a">>), Str(<<"b">>)>>),
            Arr(<<Str(<<"b", NL, "a">>), Str(<<"a">>)>>), Num(7)}

HeaderObjects ==
    {Obj(<<>>),
     Obj(<<[name |-> "Content-Type",
            value |-> Str(<<"text/plain", ";", "charset=latin1">>)]>>),
     Obj(<<[name |-> SkipHeader, value |-> Str(<<"a">>)]>>),
     Obj(<<[name |-> SkipHeader, value |-> Num(7)]>>)}
      \cup {Obj(<<[name |-> "Set-Cookie", value |-> v]>>) : v \in HeaderValues}
      \cup {Obj(<<[name |-> "Set-Cookie", value |-> v],
                  [name |-> "X-Powered-By", value |-> Str(<<"a", NL>>)]>>) :
               v \in HeaderValues}
      \cup {Obj(<<[name |-> "Set-Cookie", value |-> v],
                  [name |-> SkipHeader, value |-> Str(<<>>)]>>) :
               v \in HeaderValues}

PartValues == {BinPart(1), StrPart(2)}

Parts == UNION {[1..n -> PartValues] : n \in 0..MaxParts}

Bodies ==
    {Undefined, Str(<<>>), Str(<<"a">>), Num(7)}
      \cup {Body(ps, FALSE, <<>>) : ps \in Parts}
      \cup {Body(ps, TRUE, cs) : ps \in Parts, cs \in {<<>>, <<BinPart(3)>>}}

Results ==
    {Null, Undefined}
      \cup {[t |-> "result", status |-> st, headers |-> h, body |-> b] :
               st \in Statuses, h \in HeaderObjects \cup {Undefined},
               b \in Bodies}

CommitInputs ==
    {[async |-> a, committed |-> c, result |-> r] :
        a \in BOOLEAN, c \in BOOLEAN, r \in Results}


\* ================================================= handleRequest, resolve
\* Function values.  An app takes a request and returns a response; a
\* middleware takes the next app and returns an app, modelled as the
\* closure Wrapped(id, next), which on a request enters middleware id,
\* calls next with the request and hands back what next returned.
Fn(id, hasEnv) ==
    [t |-> "function", kind |-> "app", id |-> id, env |-> hasEnv,
     profile |-> FALSE]
Mw(id) == [t |-> "function", kind |-> "middleware", id |-> id, env |-> FALSE]
Wrapped(id, next) ==
    [t |-> "function", kind |-> "wrapped", id |-> id, next |-> next,
     env |-> FALSE]
\* a value that is being thrown
Throw(e) == [t |-> "throw", err |-> e]

\* require(id): the exports of the modules that can be named
Require(id) ==
    IF id = <<"mwmod">>
       THEN [middleware |-> Mw(3), handleRequest |-> Undefined]
       ELSE IF id = <<"appmod">>
               THEN [middleware |-> Undefined, handleRequest |-> Fn(2, FALSE)]
               ELSE [middleware |-> Mw(4), handleRequest |-> Fn(4, FALSE)]

\* f(x) where f should be a middleware
Apply(f, x) ==
    IF f.t = "throw" THEN f
    ELSE IF x.t = "throw" THEN x
    ELSE IF f.t # "function" THEN Throw("TypeError")
    ELSE IF f.kind = "middleware" THEN Wrapped(f.id, x)
    \* an app called with x as its request: whatever it answers
    ELSE [t |-> "answer", of |-> f.id]

RECURSIVE resolve(_)

middlewareWrapper(inner, outer) == Apply(resolve(outer), inner)

\* the callback applied to list[i], list[i-1], ..., list[1]
RECURSIVE ReduceRightFrom(_, _, _)
ReduceRightFrom(list, i, acc) ==
    IF i = 0
       THEN acc
       ELSE ReduceRightFrom(list, i - 1, middlewareWrapper(acc, list[i]))

\* list.reduce(middlewareWrapper, init): the list folded from its first
\* element on
ReduceLeftInit(list, init) ==
    ReduceRightFrom([i \in 1..Len(list) |-> list[Len(list) + 1 - i]],
                    Len(list), init)

\* list.reduceRight(middlewareWrapper, init)
ReduceRightInit(list, init) == ReduceRightFrom(list, Len(list), init)

\* list.reduceRight(middlewareWrapper): the accumulator starts as the last
\* element; an empty list is a TypeError
ReduceRight(list) ==
    IF Len(list) = 0
       THEN Throw("TypeError")
       ELSE ReduceRightFrom(list, Len(list) - 1, list[Len(list)])

resolve(app) ==
    IF app.t = "string"
       THEN LET module == Require(app.v)
            IN  IF ~Falsy(module.middleware) THEN module.middleware
                                             ELSE module.handleRequest
       ELSE IF app.t = "array"
               THEN ReduceRight(app.v)
               ELSE app

\* app(request): the functions entered and left, in order, and what comes
\* back.  reply is what the innermost app returns.
RECURSIVE Invoke(_, _)
Invoke(app, reply) ==
    IF app.t # "function"
       THEN [trace |-> <<>>, err |-> "TypeError", result |-> Undefined]
       ELSE IF app.kind = "app"
               THEN [trace |-> <<[ev |-> "call", id |-> app.id]>>,
                     err |-> "none", result |-> reply]
               ELSE IF app.kind = "middleware"
                       THEN [trace |-> <<[ev |-> "call", id |-> app.id]>>,
                             err |-> "none",
                             result |-> Wrapped(app.id, Undefined)]
                       ELSE LET r == Invoke(app.next, reply)
                            IN  [trace |-> <<[ev |-> "enter", id |-> app.id]>>
                                             \o r.trace
                                             \o (IF r.err = "none"
                                                    THEN <<[ev |-> "leave",
                                                            id |-> app.id]>>
                                                    ELSE <<>>),
                                 err |-> r.err, result |-> r.result]

\* module.middleware || []
MiddlewareOf(module) ==
    IF Falsy(module.middleware) THEN <<>> ELSE module.middleware.v

Failed(e, trace) ==
    [err |-> e, ops |-> <<>>, trace |-> trace, committerRan |-> FALSE]

\* lines 44-48 of handleRequest
CallAndCommitUnchecked(app, in) ==
    LET r == Invoke(app, in.reply)
    IN  IF r.err # "none"
           THEN Failed(r.err, r.trace)
           ELSE LET c == commitResponse([async |-> in.startsAsync,
                                         committed |-> in.committed,
                                         result |-> r.result])
                IN  [err |-> c.err, ops |-> c.ops, trace |-> r.trace,
                     committerRan |-> TRUE]

CallAndCommit(app, in) ==
    LET r == Invoke(app, in.reply)
    IN  IF r.err # "none"
           THEN Failed(r.err, r.trace)
           ELSE IF Falsy(r.result)
                   THEN Failed("No valid JSGI response", r.trace)
                   ELSE LET c == commitResponse([async |-> in.startsAsync,
                                                 committed |-> in.committed,
                                                 result |-> r.result])
                        IN  [err |-> c.err, ops |-> c.ops, trace |-> r.trace,
                             committerRan |-> TRUE]

\* handleRequest(moduleId, functionObj, request).  in.module is
\* require(moduleId) as far as it is read: app is module[functionObj].
handleRequest(in) ==
    LET app0 == IF in.functionObj.t = "function"
                   THEN in.functionObj
                   ELSE ReduceRightInit(MiddlewareOf(in.module),
                                        resolve(in.module.app))
        app == IF ~Falsy(app0) /\ in.ringoEnv /\ app0.t = "function"
                   /\ app0.env
                  THEN [app0 EXCEPT !.profile = TRUE]
                  ELSE app0
    IN  IF app.t = "throw"
           THEN Failed(app.err, <<>>)
           ELSE IF app.t # "function"
                   THEN Failed("No valid JSGI app", <<>>)
                   ELSE CallAndCommit(app, in)

\* ---- the inputs handleRequest is applied to
MaxStack == 2

StackItems == {Mw(1), Mw(2), Str(<<"mwmod">>)}

Stacks == UNION {[1..n -> StackItems] : n \in 0..MaxStack}

Modules ==
    {[app |-> a, middleware |-> m] :
        a \in {Fn(1, FALSE), Undefined},
        m \in {Undefined} \cup {Arr(s) : s \in Stacks}}

ValidReply ==
    [t |-> "result", status |-> Num(200), headers |-> Obj(<<>>),
     body |-> Body(<<BinPart(1)>>, FALSE, <<>>)]

Replies ==
    {Undefined, Null, Num(0), Str(<<>>), ValidReply,
     [ValidReply EXCEPT !.status = Undefined]}

HandleInputs ==
    {[functionObj |-> f, module |-> m, reply |-> r, startsAsync |-> a,
      committed |-> c, ringoEnv |-> e] :
        f \in {Str(<<"app">>)}, m \in Modules, r \in Replies,
        a \in BOOLEAN, c \in BOOLEAN, e \in BOOLEAN}
      \cup
    {[functionObj |-> f, module |-> Undefined, reply |-> r, startsAsync |-> a,
      committed |-> c, ringoEnv |-> e] :
        f \in {Fn(1, FALSE), Fn(1, TRUE)}, r \in Replies,
        a \in BOOLEAN, c \in BOOLEAN, e \in BOOLEAN}

\* ---- the lists resolve is applied to
MaxList == 3

ListItems ==
    {Fn(1, FALSE), Mw(1), Str(<<"mwmod">>), Str(<<"appmod">>), Arr(<<Mw(2)>>),
     Arr(<<Str(<<"mwmod">>)>>), Arr(<<Mw(2), Str(<<"appmod">>)>>)}

ResolveInputs == {Arr(l) : l \in UNION {[1..n -> ListItems] : n \in 1..MaxList}}

\* ---------------------------------------------------------- specification
HandleIdle ==
    /\ hInput = Undefined
    /\ hOut = Undefined
    /\ hDone = FALSE

CommitIdle ==
    /\ cInput = [async |-> FALSE, committed |-> FALSE, result |-> Null]
    /\ cOps = <<>>
    /\ cError = "none"
    /\ cDone = FALSE

\* The state AsyncResponse(request, timeout, autoFlush) returns in.
AsyncCreated ==
    /\ writeListener = 0
    /\ nListeners = 0
    /\ queues = [l \in Listeners |-> <<>>]
    /\ registered = 0
    /\ channel = <<>>
    /\ flushes = 0
    /\ cbPending = FALSE
    /\ completed = FALSE
    /\ completeCalls = 0
    /\ closeCalls = 0
    /\ flushCalls = 0
    /\ timeoutFired = FALSE
    /\ errorFired = FALSE
    /\ pc = [p \in Procs |-> "idle"]
    /\ data = [p \in Procs |-> 0]
    /\ this = [p \in Procs |-> 0]
    /\ polled = [p \in Procs |-> 0]
    /\ nextChunk = 1
    /\ chanOps = [p \in Procs |-> 0]
    /\ startedCompleted = [p \in Procs |-> FALSE]
    /\ notReadyCall = [p \in Procs |-> FALSE]

Init ==
    /\ autoFlush \in BOOLEAN
    /\ hasTimeout \in BOOLEAN
    /\ chReady \in BOOLEAN
    /\ AsyncCreated
    /\ CommitIdle
    /\ HandleIdle

WriteStep(t) ==
    \/ WriteBegin(t)
    \/ W_New(t)
    \/ W_AddFirst(t)
    \/ W_SetListener(t)
    \/ W_Add(t)
    \/ W_Call(t)

FlushStep(t) ==
    \/ F_Check(t)
    \/ F_Flush(t)

DrainStep(p) ==
    \/ D_Empty(p)
    \/ D_Ready(p)
    \/ D_Poll(p)
    \/ D_Write(p)
    \/ D_FlushChk(p)
    \/ D_Flush(p)

Next ==
    \/ \E t \in Threads : (WriteStep(t) /\ UNCHANGED <<commitVars, handleVars>>)
    \/ \E p \in Procs : (DrainStep(p) /\ UNCHANGED <<commitVars, handleVars>>)
    \/ \E t \in Threads : (FlushStep(t) /\ UNCHANGED <<commitVars, handleVars>>)
    \/ \E t \in Threads : (Close(t) /\ UNCHANGED <<commitVars, handleVars>>)
    \/ (OnTimeout /\ UNCHANGED <<commitVars, handleVars>>)
    \/ (OnError /\ UNCHANGED <<commitVars, handleVars>>)
    \/ (ChannelReady /\ UNCHANGED <<commitVars, handleVars>>)
    \/ (CallbackStart /\ UNCHANGED <<commitVars, handleVars>>)

Spec == Init /\ [][Next]_vars


\* commitResponse(req, result), start to end
Commit ==
    /\ ~cDone
    /\ cDone' = TRUE
    /\ cOps' = commitResponse(cInput).ops
    /\ cError' = commitResponse(cInput).err
    /\ UNCHANGED cInput

InitCommit ==
    /\ autoFlush = FALSE
    /\ hasTimeout = FALSE
    /\ chReady = FALSE
    /\ AsyncCreated
    /\ cInput \in CommitInputs
    /\ cOps = <<>>
    /\ cError = "none"
    /\ cDone = FALSE
    /\ HandleIdle

NextCommit == Commit /\ UNCHANGED <<asyncVars, handleVars>>

SpecCommit == InitCommit /\ [][NextCommit]_vars

\* handleRequest(moduleId, functionObj, request), start to end
Handle ==
    /\ ~hDone
    /\ hDone' = TRUE
    /\ hOut' = handleRequest(hInput)
    /\ UNCHANGED hInput

InitHandle ==
    /\ autoFlush = FALSE
    /\ hasTimeout = FALSE
    /\ chReady = FALSE
    /\ AsyncCreated
    /\ CommitIdle
    /\ hInput \in HandleInputs
    /\ hOut = Undefined
    /\ hDone = FALSE

NextHandle == Handle /\ UNCHANGED <<asyncVars, commitVars>>

SpecHandle == InitHandle /\ [][NextHandle]_vars

\* resolve(app) for a list app, start to end
Resolve ==
    /\ ~hDone
    /\ hDone' = TRUE
    /\ hOut' = resolve(hInput)
    /\ UNCHANGED hInput

InitResolve ==
    /\ autoFlush = FALSE
    /\ hasTimeout = FALSE
    /\ chReady = FALSE
    /\ AsyncCreated
    /\ CommitIdle
    /\ hInput \in ResolveInputs
    /\ hOut = Undefined
    /\ hDone = FALSE

NextResolve == Resolve /\ UNCHANGED <<asyncVars, commitVars>>

SpecResolve == InitResolve /\ [][NextResolve]_vars


\* ================================================================ claims

\* ---- C1 (as claimed): the chunks handed to channel.write are in the order
\* in which queue.add enqueued them.  Chunks are numbered in add order, so
\* the channel's sequence would have to be increasing.
C1_FifoOrder ==
    \A i, j \in 1..Len(channel) : i < j => channel[i] < channel[j]

\* ---- C2 (as claimed): no chunk is lost or duplicated.  Every enqueued
\* chunk is, exactly once, in the handle's queue (the queue of the listener
\* the handle refers to or of the one registered with the channel), held by
\* a running drain, or handed to channel.write; the channel holds nothing
\* else.
HandleQueued(c) ==
    \/ (writeListener # 0 /\ c \in Range(queues[writeListener]))
    \/ (registered # 0 /\ c \in Range(queues[registered]))

Occurrences(c) ==
    (IF HandleQueued(c) THEN 1 ELSE 0)
      + Cardinality({p \in Procs : polled[p] = c})
      + Cardinality({i \in 1..Len(channel) : channel[i] = c})

C2_NoLossNoDup ==
    /\ \A c \in 1..(nextChunk - 1) : Occurrences(c) = 1
    /\ \A i \in 1..Len(channel) : channel[i] \in 1..(nextChunk - 1)

\* ---- C3 (as claimed): a write call begun after the exchange was completed
\* (by close, the timeout or the error callback) makes no channel.write and
\* no channel.flush.
C3_NoChannelCallAfterComplete ==
    \A t \in Threads :
        startedCompleted[t] => (chanOps[t] = 0 /\ pc[t] # "d_flush")

\* ---- C4 (as claimed): completion is performed exactly once; complete() is
\* never invoked on an already completed exchange.
C4_CompleteInvokedOnce == completeCalls <= 1

\* ---- C4 (amended): the timeout callback completes the exchange, and
\* complete() is invoked once per timeout callback, once per close() call
\* and once per error callback, with no guard against a second invocation.
C4_CompleteOncePerTrigger ==
    /\ timeoutFired => completed
    /\ completeCalls = closeCalls + (IF timeoutFired THEN 1 ELSE 0)
                                  + (IF errorFired THEN 1 ELSE 0)
    /\ completed <=> completeCalls > 0

C4_Witness ==
    hasTimeout /\ timeoutFired /\ closeCalls = 1 /\ completeCalls = 2

\* ---- C5: a write call during which the channel has not been ready makes
\* no channel.write and polls nothing; its chunk is appended to the queue
\* and is removed from it, if at all, by another call's drain.
C5_NotReadyWriteOnlyQueues ==
    \A t \in Threads :
        (notReadyCall[t] /\ pc[t] # "idle") =>
            /\ ~chReady
            /\ chanOps[t] = 0
            /\ polled[t] = 0
            /\ pc[t] \notin {"d_poll", "d_write", "d_flush"}
            /\ data[t] # 0 =>
                   \/ InQueue(data[t])
                   \/ \E p \in Procs \ {t} : polled[p] = data[t]
                   \/ data[t] \in Range(channel)

C5_Witness ==
    \E t \in Threads :
        /\ notReadyCall[t]
        /\ pc[t] = "d_flushChk"
        /\ data[t] \in Range(queues[this[t]])
        /\ data[t] \notin Range(channel)

\* ---- C6 (as claimed): no chunk is stranded.  With the handle open, every
\* call returned, the channel ready and no readiness callback owed, nothing
\* will run again unless write is called, so every queue must be empty.
Quiescent ==
    /\ ~completed
    /\ registered # 0
    /\ chReady
    /\ ~cbPending
    /\ \A p \in Procs : pc[p] = "idle"

C6_NoStrandedChunk ==
    Quiescent => \A l \in Listeners : queues[l] = <<>>

\* ---- C7: a descriptor with status, headers or body missing, outside async
\* mode, fails with the invalid-response error and nothing is done on the
\* transport, whatever the committed flag and the headers are.
MissingField(r) ==
    r.t = "result" /\ (Falsy(r.status) \/ Falsy(r.headers) \/ Falsy(r.body))

C7_InvalidResponseNoWrites ==
    (cDone /\ ~cInput.async /\ MissingField(cInput.result)) =>
        (cError = "No valid JSGI response" /\ cOps = <<>>)

C7_Witness ==
    /\ cDone /\ ~cInput.async /\ cInput.committed
    /\ cInput.result.t = "result"
    /\ ~Falsy(cInput.result.status)
    /\ ~Falsy(cInput.result.headers)
    /\ Falsy(cInput.result.body)
    /\ cError = "No valid JSGI response"

\* ---- C8: a valid descriptor is not written when its headers contain
\* X-JSGI-Skip-Response (any value) or the response is already committed;
\* otherwise it is written, status first.
ValidResult(r) ==
    r.t = "result" /\ ~Falsy(r.status) /\ ~Falsy(r.headers) /\ ~Falsy(r.body)

HasSkip(r) == \E i \in 1..Len(r.headers.v) : r.headers.v[i].name = SkipHeader

C8_SkipOrCommittedNoWrites ==
    (cDone /\ ~cInput.async /\ ValidResult(cInput.result)) =>
        IF HasSkip(cInput.result) \/ cInput.committed
           THEN cOps = <<>> /\ cError = "none"
           ELSE cOps # <<>> /\ cOps[1].op = "setStatus"

C8_Witness ==
    /\ cDone /\ ~cInput.async /\ ~cInput.committed
    /\ ValidResult(cInput.result)
    /\ HasForEach(cInput.result.body)
    /\ \E i \in 1..Len(cInput.result.headers.v) :
           /\ cInput.result.headers.v[i].name = SkipHeader
           /\ cInput.result.headers.v[i].value = Num(7)
    /\ cOps = <<>>

\* ---- C9: in async mode commit raises nothing and does nothing on the
\* transport, for every result value.
C9_AsyncCommitNoOp ==
    (cDone /\ cInput.async) => (cError = "none" /\ cOps = <<>>)

C9_Witness ==
    /\ cDone /\ cInput.async /\ ~cInput.committed
    /\ MissingField(cInput.result)
    /\ cError = "none"

\* ---- C10 (as claimed): status and headers present and a truthy body
\* without forEach: commit fails with the body-not-iterable error and no
\* byte is written to the output channel.
NotIterable(r) ==
    /\ r.t = "result"
    /\ ~Falsy(r.status) /\ ~Falsy(r.headers) /\ ~Falsy(r.body)
    /\ ~HasForEach(r.body)

NoByteWritten == \A i \in 1..Len(cOps) : cOps[i].op # "write"

C10_NotIterableFails ==
    (cDone /\ NotIterable(cInput.result)) =>
        (cError = "Response body doesn't implement forEach" /\ NoByteWritten)

\* ---- C10 (amended): the same, provided the exchange is not in async mode,
\* the response is not already committed and the headers do not contain
\* X-JSGI-Skip-Response; in those three cases commit returns without error.
C10_NotIterableFailsWhenWritten ==
    (cDone /\ NotIterable(cInput.result)) =>
        IF cInput.async \/ cInput.committed \/ HasSkip(cInput.result)
           THEN cError = "none" /\ cOps = <<>>
           ELSE /\ cError = "Response body doesn't implement forEach"
                /\ NoByteWritten

C10_Witness ==
    /\ cDone /\ NotIterable(cInput.result)
    /\ ~cInput.async /\ ~cInput.committed /\ ~HasSkip(cInput.result)
    /\ cError = "Response body doesn't implement forEach"
    /\ Len(cOps) > 1

\* a handler is there to be invoked: functionObj is a function, or the
\* module exports one under that name
HandlerGiven(in) ==
    \/ in.functionObj.t = "function"
    \/ in.module.app.t = "function"

\* ---- C11: whenever the invoked handler returns a falsy result,
\* handleRequest fails with the invalid-response error, commitResponse is
\* not run and nothing is written to the transport, also when the handler
\* started async mode before it returned.
C11_FalsyResultFails ==
    (hDone /\ HandlerGiven(hInput) /\ Falsy(hInput.reply))
        => /\ hOut.err = "No valid JSGI response"
           /\ ~hOut.committerRan
           /\ hOut.ops = <<>>

C11_Witness ==
    /\ hDone /\ HandlerGiven(hInput) /\ Falsy(hInput.reply)
    /\ hInput.startsAsync
    /\ hOut.trace # <<>>
    /\ hOut.err = "No valid JSGI response"

\* the id of the middleware a stack entry stands for
MwId(item) ==
    IF item.t = "string" THEN Require(item.v).middleware.id ELSE item.id

Entered(stack) ==
    [i \in 1..Len(stack) |-> [ev |-> "enter", id |-> MwId(stack[i])]]

Left(stack) ==
    [i \in 1..Len(stack) |->
        [ev |-> "leave", id |-> MwId(stack[Len(stack) + 1 - i])]]

\* ---- C12: for a module with middleware stack [m1, ..., mn] and handler h
\* the composed handler is m1(m2(...mn(h))): a request enters m1, ..., mn in
\* the listed order, then calls h, then leaves mn, ..., m1.
C12_MiddlewareOrder ==
    (/\ hDone
     /\ hInput.functionObj.t = "string"
     /\ hInput.module.app.t = "function"
     /\ hInput.module.middleware.t = "array")
        => hOut.trace = Entered(hInput.module.middleware.v)
                          \o <<[ev |-> "call", id |-> hInput.module.app.id]>>
                          \o Left(hInput.module.middleware.v)

C12_Witness ==
    /\ hDone
    /\ hInput.functionObj.t = "string"
    /\ hInput.module.app.t = "function"
    /\ hInput.module.middleware.t = "array"
    /\ Len(hInput.module.middleware.v) = 2
    /\ MwId(hInput.module.middleware.v[1]) # MwId(hInput.module.middleware.v[2])
    /\ Len(hOut.trace) = 5

\* resolve(e1)(resolve(e2)(...resolve(en)...)), every element resolved,
\* nested lists in the same way
RECURSIVE ResolvedEvery(_)
RECURSIVE ResolvedEveryFrom(_, _)
ResolvedEveryFrom(list, i) ==
    IF i = Len(list)
       THEN ResolvedEvery(list[i])
       ELSE Apply(ResolvedEvery(list[i]), ResolvedEveryFrom(list, i + 1))

ResolvedEvery(app) ==
    IF app.t = "array" THEN ResolvedEveryFrom(app.v, 1) ELSE resolve(app)

\* ---- C18 (as claimed): resolve of a list [e1, ..., en], n >= 1, of names,
\* nested lists and callables is resolve(e1)(resolve(e2)(...resolve(en)...)),
\* the last element resolved like the others.
C18_ListResolvesEveryElement ==
    hDone => hOut = ResolvedEvery(hInput)

\* ---- C13: when the container reports a channel error to the write
\* listener, onError calls asyncContext.complete(), so the exchange ends,
\* and the step disturbs no caller: no thread's position changes and
\* nothing is written.
C13_ErrorCompletes ==
    [][(errorFired' /\ ~errorFired)
          => /\ completed'
             /\ completeCalls' = completeCalls + 1
             /\ pc' = pc
             /\ channel' = channel]_vars

C13_Witness ==
    errorFired /\ completed /\ completeCalls = 1 /\ closeCalls = 0
      /\ ~timeoutFired

\* ---- C14: flush() goes on to channel.flush exactly when the channel
\* reports ready at its test; a call that finds the channel not ready changes
\* nothing (no flush, no write, the queues as they were) and is over at
\* once.  The flush it goes on to is one channel.flush and nothing else.
C14_FlushOnlyWhenReady ==
    [][/\ (flushCalls' # flushCalls)
            => IF chReady
                  THEN \E t \in Threads : pc[t] = "idle" /\ pc'[t] = "f_flush"
                  ELSE /\ pc' = pc
                       /\ flushes' = flushes
                       /\ channel' = channel
                       /\ queues' = queues
       /\ \A t \in Threads :
            (pc[t] = "f_flush" /\ pc'[t] # "f_flush")
                => /\ pc'[t] = "idle"
                   /\ flushes' = flushes + 1
                   /\ channel' = channel
                   /\ queues' = queues
       /\ \A t \in Threads :
            (pc'[t] = "f_flush" /\ pc[t] # "f_flush")
                => (flushCalls' # flushCalls)]_vars

C14_Witness ==
    /\ flushCalls = 1 /\ flushes = 1 /\ ~autoFlush
    /\ \A p \in Procs : pc[p] = "idle"
    /\ channel # <<>>

\* the values of the addHeader calls made with the given name, in call order
LinesOf(ops, name) ==
    LET calls == SelectSeq(ops, LAMBDA o : o.op = "addHeader"
                                             /\ o.name = name)
    IN  [i \in 1..Len(calls) |-> calls[i].value]

\* the strings joined with a newline between neighbours
RECURSIVE JoinNL(_)
JoinNL(parts) ==
    IF Len(parts) = 0 THEN <<>>
    ELSE IF Len(parts) = 1 THEN parts[1]
    ELSE parts[1] \o <<NL>> \o JoinNL(Tail(parts))

\* commitResponse went through writeResponse
Written == cDone /\ cOps # <<>>

\* ---- C15: in a written response every header whose value is a string
\* yields one addHeader call per newline-separated substring, with the
\* header's name and in substring order (the values hold no newline and,
\* joined by newlines, give the string back); a list yields one call per
\* element in order; any other value yields no call.
C15_HeaderLines ==
    Written =>
        \A i \in 1..Len(cInput.result.headers.v) :
            LET e == cInput.result.headers.v[i]
                lines == LinesOf(cOps, e.name)
            IN  IF e.value.t = "string"
                   THEN /\ Len(lines) >= 1
                        /\ \A j \in 1..Len(lines) : NL \notin Range(lines[j])
                        /\ JoinNL(lines) = e.value.v
                   ELSE IF e.value.t = "array"
                           THEN lines = [j \in 1..Len(e.value.v) |->
                                            e.value.v[j].v]
                           ELSE lines = <<>>

C15_Witness ==
    /\ Written
    /\ \E i \in 1..Len(cInput.result.headers.v) :
           /\ cInput.result.headers.v[i].value.t = "string"
           /\ NL \in Range(cInput.result.headers.v[i].value.v)
           /\ Len(LinesOf(cOps, cInput.result.headers.v[i].name)) = 3

\* status first, then headers, then the body
Rank(o) ==
    IF o.op = "setStatus" THEN 0 ELSE IF o.op = "addHeader" THEN 1 ELSE 2

Count(ops, kind) == Len(SelectSeq(ops, LAMBDA o : o.op = kind))

\* where the body's operations end: at its close call, if it has one
EndOfParts(ops) ==
    IF \E k \in 1..Len(ops) : ops[k].op = "close"
       THEN (CHOOSE k \in 1..Len(ops) : ops[k].op = "close") - 1
       ELSE Len(ops)

\* ---- C19: a response written without error sets the status first, then
\* adds all header lines, then writes the body's parts in iteration order;
\* a body with a close function has it called exactly once, after the last
\* part, and what close passes to the writer is written after that by the
\* same writer (same charset conversion); a body without one has nothing
\* called.
C19_CommitOrder ==
    (Written /\ cError = "none") =>
        LET body == cInput.result.body
            first == 2 + Count(cOps, "addHeader")
            last == EndOfParts(cOps)
            enc(part) == IF part.bin THEN "binary"
                                     ELSE Charset(cInput.result.headers)
        IN  /\ cOps[1].op = "setStatus"
            /\ Count(cOps, "setStatus") = 1
            /\ \A i, j \in 1..Len(cOps) :
                   i < j => Rank(cOps[i]) <= Rank(cOps[j])
            /\ Count(cOps, "close") = (IF body.close THEN 1 ELSE 0)
            /\ last - first + 1 = Len(body.v)
            /\ \A j \in 1..Len(body.v) :
                   cOps[first + j - 1] =
                       [op |-> "write",
                        bytes |-> [enc |-> enc(body.v[j]), v |-> body.v[j].v]]
            /\ body.close =>
                   /\ Len(cOps) - (last + 1) = Len(body.closeParts)
                   /\ \A j \in 1..Len(body.closeParts) :
                          cOps[last + 1 + j] =
                              [op |-> "write",
                               bytes |-> [enc |-> enc(body.closeParts[j]),
                                          v |-> body.closeParts[j].v]]

C19_Witness ==
    /\ Written /\ cError = "none"
    /\ cInput.result.body.close
    /\ Len(cInput.result.body.v) = 2
    /\ cInput.result.body.closeParts # <<>>
    /\ Count(cOps, "addHeader") >= 2
    /\ cOps[Len(cOps) - 1].op = "close"

\* ---- C16 (as claimed): every channel.write of a drain is issued while
\* the channel is ready, however the container's callback and the drains
\* started by write overlap.
C16_WriteOnlyWhileReady ==
    [][(Len(channel') > Len(channel)) => chReady]_vars

\* ---- C17 (as claimed): a handle has at most one write queue for its
\* whole life: one WriteListenerImpl is constructed, by the first write,
\* and every chunk is enqueued into its queue.
C17_OneQueue ==
    /\ nListeners <= 1
    /\ \A l \in Listeners : queues[l] # <<>> => l = 1

====
